---- MODULE Spec2Model ----
(***************************************************************************)
(* Model of memobase_server/telemetry/open_telemetry.py: the metric        *)
(* catalog (three enumerations), the TelemetryManager (exporter setup,     *)
(* registry setup, the three record operations) and the exporter's read    *)
(* of the instruments' state.                                              *)
(***************************************************************************)
EXTENDS Integers, Sequences, FiniteSets, TLC

VARIABLES
    platform,     \* the operating system the process runs on (fixes errno values)
    providerSet,  \* metrics.set_meter_provider(provider) has run
    exporter,     \* start_http_server() bound the port in this process
    meter,        \* self._meter is set (not None)
    metrics,      \* self.metrics: identity -> instrument (its kind)
    counters,     \* state of the counter instruments: <<identity, attrs>> -> total
    histograms,   \* state of the histogram instruments: <<identity, attrs>> -> [count, sum]
    gauges,       \* state of the gauge instruments: <<identity, attrs>> -> last value
    nrecords,     \* number of record calls that reached an instrument
    lastCall,     \* the last call made on the manager or the exporter, with its outcome
    mainpc,       \* where the import of the module is (lines 179-181)
    pc,           \* per caller thread: where its increment_counter_metric call is
    done          \* per caller thread: the calls it has completed

manager == <<platform, providerSet, exporter, meter, metrics,
             counters, histograms, gauges, nrecords, lastCall>>

threads == <<mainpc, pc, done>>

vars == <<manager, threads>>

-----------------------------------------------------------------------------
(* Bounds of the model *)

\* record calls that reach an instrument, per behaviour of Spec
MaxRecords == 2

\* the concurrent callers of StartupSpec, and the calls each makes
NumCallers == 3

CallsPerCaller == 2

-----------------------------------------------------------------------------
(* The metric catalog *)

Member(e, n, v) == [enum |-> e, name |-> n, value |-> v]

CounterMetricName ==
    << Member("CounterMetricName", "REQUEST", "requests_total"),
       Member("CounterMetricName", "HEALTHCHECK", "healthcheck_total"),
       Member("CounterMetricName", "LLM_INVOCATIONS", "llm_invocations_total"),
       Member("CounterMetricName", "LLM_TOKENS_INPUT", "llm_tokens_input_total"),
       Member("CounterMetricName", "LLM_TOKENS_OUTPUT", "llm_tokens_output_total") >>

HistogramMetricName ==
    << Member("HistogramMetricName", "LLM_LATENCY_MS", "llm_latency"),
       Member("HistogramMetricName", "REQUEST_LATENCY_MS", "request_latency") >>

GaugeMetricName ==
    << Member("GaugeMetricName", "INPUT_TOKEN_COUNT", "input_token_count_per_call"),
       Member("GaugeMetricName", "OUTPUT_TOKEN_COUNT", "output_token_count_per_call") >>

Members(enum) == { enum[i] : i \in 1..Len(enum) }

Catalog ==
    Members(CounterMetricName) \cup Members(HistogramMetricName)
        \cup Members(GaugeMetricName)

\* (mutant) the f-string leaves the member's value out
get_metric_name_no_value(m) == "memobase_server_"

get_metric_name(m) == "memobase_server_" \o m.value

\* (mutant) the gauge loop calls create_counter
CreatedKindGaugeAsCounter(m) ==
    CASE m.enum = "CounterMetricName" -> "counter"
      [] m.enum = "HistogramMetricName" -> "histogram"
      [] m.enum = "GaugeMetricName" -> "counter"

\* the kind of instrument setup_metrics creates for a member of each enumeration
CreatedKind(m) ==
    CASE m.enum = "CounterMetricName" -> "counter"
      [] m.enum = "HistogramMetricName" -> "histogram"
      [] m.enum = "GaugeMetricName" -> "gauge"

\* the order in which setup_metrics creates the instruments
CreationOrder == CounterMetricName \o HistogramMetricName \o GaugeMetricName

-----------------------------------------------------------------------------
(* Inputs *)

Platforms == {"darwin", "linux"}

\* what start_http_server(port) can do
BindOutcomes == {"bound", "address_in_use", "permission_denied", "address_not_available"}

\* the errno of the OSError the operating system reports for a failed bind
ErrnoOf(p, cause) ==
    CASE cause = "permission_denied" -> 13
      [] cause = "address_in_use" /\ p = "darwin" -> 48
      [] cause = "address_in_use" /\ p = "linux" -> 98
      [] cause = "address_not_available" /\ p = "darwin" -> 49
      [] cause = "address_not_available" /\ p = "linux" -> 99

\* the create call of setup_metrics that raises: the first or a later
\* create_counter, the first create_histogram, the first create_gauge, or
\* none (one past the last index)
FailPoints ==
    {1, 3, Len(CounterMetricName) + 1,
     Len(CounterMetricName) + Len(HistogramMetricName) + 1, Len(CreationOrder) + 1}

\* the attribute sets callers pass (None, or one label set)
AttrSets == {"none", "route=/api"}

\* the values callers pass
Values == {1, 2}

\* the instruments callers record to with every value and attribute set
\* (the first member of each enumeration)
RecordTargets == {CounterMetricName[1], HistogramMetricName[1], GaugeMetricName[1]}

\* the arguments of the record calls: every identity of the catalog with the
\* default attributes, the targets with every value and attribute set
RecordInputs ==
    (Catalog \X {1} \X {"none"}) \cup (RecordTargets \X Values \X AttrSets)

Callers == 1..NumCallers

NoMember == Member("none", "none", "none")

\* what the caller of an operation observes: the operation, how it ended, and
\* what the outcome carries (the arguments of a call that took effect, the
\* metric a KeyError names, the instrument an AttributeError names)
Call(op, m, v, a, res) ==
    [op |-> op, metric |-> m, value |-> v, attrs |-> a, result |-> res,
     instrument |-> "none", cause |-> "none", warned |-> FALSE, output |-> <<>>]

KeyError(op, m) == Call(op, m, 0, "none", "KeyError")

AttributeError(op, kind) ==
    [Call(op, NoMember, 0, "none", "AttributeError") EXCEPT !.instrument = kind]

Ok(op, m, v, a, kind) == [Call(op, m, v, a, "ok") EXCEPT !.instrument = kind]

Put(f, k, v) == [x \in DOMAIN f \cup {k} |-> IF x = k THEN v ELSE f[x]]

-----------------------------------------------------------------------------
(* TelemetryManager *)

Init ==
    /\ platform \in Platforms
    /\ providerSet = FALSE
    /\ exporter = FALSE
    /\ meter = FALSE
    /\ metrics = <<>>
    /\ counters = <<>>
    /\ histograms = <<>>
    /\ gauges = <<>>
    /\ nrecords = 0
    /\ lastCall = Call("__init__", NoMember, 0, "none", "ok")
    /\ mainpc = "setup_telemetry"
    /\ pc = [t \in Callers |-> "idle"]
    /\ done = [t \in Callers |-> 0]

\* (mutant) the except clause swallows every OSError
SwallowedErrnoAny(e) == TRUE

\* (mutant) the except clause also knows the Linux code of EADDRINUSE
SwallowedErrnoPortable(e) == e \in {48, 98}

\* the errno test of the except clause: the handler swallows the error
SwallowedErrno(e) == e = 48

\* (mutant) the meter is initialised before the HTTP server is started
setup_telemetry_meter_first(cause) ==
    /\ cause = "bound" => ~exporter
    /\ providerSet' = TRUE
    /\ meter' = TRUE
    /\ IF cause = "bound"
         THEN /\ exporter' = TRUE
              /\ lastCall' = [Call("setup_telemetry", NoMember, 0, "none", "ok")
                                EXCEPT !.cause = cause]
         ELSE IF SwallowedErrno(ErrnoOf(platform, cause))
                THEN /\ exporter' = exporter
                     /\ lastCall' = [Call("setup_telemetry", NoMember, 0, "none", "ok")
                                       EXCEPT !.cause = cause, !.warned = TRUE]
                ELSE /\ exporter' = exporter
                     /\ lastCall' = [Call("setup_telemetry", NoMember, 0, "none", "OSError")
                                       EXCEPT !.cause = cause]
    /\ UNCHANGED <<platform, metrics, counters, histograms, gauges, nrecords>>

setup_telemetry(cause) ==
    /\ cause = "bound" => ~exporter
    /\ providerSet' = TRUE
    /\ IF cause = "bound"
         THEN /\ exporter' = TRUE
              /\ meter' = TRUE
              /\ lastCall' = [Call("setup_telemetry", NoMember, 0, "none", "ok")
                                EXCEPT !.cause = cause]
         ELSE IF SwallowedErrno(ErrnoOf(platform, cause))
                THEN /\ exporter' = exporter
                     /\ meter' = TRUE
                     /\ lastCall' = [Call("setup_telemetry", NoMember, 0, "none", "ok")
                                       EXCEPT !.cause = cause, !.warned = TRUE]
                ELSE /\ exporter' = exporter
                     /\ meter' = meter
                     /\ lastCall' = [Call("setup_telemetry", NoMember, 0, "none", "OSError")
                                       EXCEPT !.cause = cause]
    /\ UNCHANGED <<platform, metrics, counters, histograms, gauges, nrecords>>

\* the registry after the loops created the first n instruments of the catalog
Populate(reg, n) ==
    [m \in DOMAIN reg \cup { CreationOrder[i] : i \in 1..n } |->
        IF \E i \in 1..n : CreationOrder[i] = m THEN CreatedKind(m) ELSE reg[m]]

\* (mutant) setup_metrics without its test of self._meter
setup_metrics_unguarded(failAt) ==
    /\ metrics' = Populate(metrics, failAt - 1)
    /\ lastCall' = Call("setup_metrics", NoMember, 0, "none",
                        IF failAt <= Len(CreationOrder) THEN "CreateError" ELSE "ok")
    /\ UNCHANGED <<platform, providerSet, exporter, meter,
                   counters, histograms, gauges, nrecords>>

\* (mutant) setup_metrics refuses a registry that is already populated
setup_metrics_once(failAt) ==
    /\ IF ~meter \/ DOMAIN metrics # {}
         THEN /\ metrics' = metrics
              /\ lastCall' = Call("setup_metrics", NoMember, 0, "none", "RuntimeError")
         ELSE /\ metrics' = Populate(metrics, failAt - 1)
              /\ lastCall' = Call("setup_metrics", NoMember, 0, "none",
                                  IF failAt <= Len(CreationOrder) THEN "CreateError" ELSE "ok")
    /\ UNCHANGED <<platform, providerSet, exporter, meter,
                   counters, histograms, gauges, nrecords>>

\* failAt: the index of the create call that raises; Len(CreationOrder) + 1 when none does
setup_metrics(failAt) ==
    /\ IF ~meter
         THEN /\ metrics' = metrics
              /\ lastCall' = Call("setup_metrics", NoMember, 0, "none", "RuntimeError")
         ELSE /\ metrics' = Populate(metrics, failAt - 1)
              /\ lastCall' = Call("setup_metrics", NoMember, 0, "none",
                                  IF failAt <= Len(CreationOrder) THEN "CreateError" ELSE "ok")
    /\ UNCHANGED <<platform, providerSet, exporter, meter,
                   counters, histograms, gauges, nrecords>>

\* Counter.add on the instrument's series
CounterAdd(series, k, v) ==
    Put(series, k, (IF k \in DOMAIN series THEN series[k] ELSE 0) + v)

\* Histogram.record on the instrument's series
HistogramRecord(series, k, v) ==
    Put(series, k,
        IF k \in DOMAIN series
          THEN [count |-> series[k].count + 1, sum |-> series[k].sum + v]
          ELSE [count |-> 1, sum |-> v])

\* Gauge.set on the instrument's series
GaugeSet(series, k, v) == Put(series, k, v)

\* (mutant) increment_counter_metric creates the instrument it does not find
increment_counter_metric_lazy(m, v, a) ==
    /\ IF m \in DOMAIN metrics /\ metrics[m] # "counter"
         THEN /\ lastCall' = AttributeError("increment_counter_metric", metrics[m])
              /\ UNCHANGED <<metrics, counters, nrecords>>
         ELSE /\ nrecords < MaxRecords
              /\ metrics' = Put(metrics, m, "counter")
              /\ counters' = CounterAdd(counters, <<m, a>>, v)
              /\ nrecords' = nrecords + 1
              /\ lastCall' = Ok("increment_counter_metric", m, v, a, "counter")
    /\ UNCHANGED <<platform, providerSet, exporter, meter, histograms, gauges>>

\* (mutant) increment_counter_metric adds to the series of every attribute set
increment_counter_metric_fanout(m, v, a) ==
    /\ IF m \notin DOMAIN metrics
         THEN /\ lastCall' = KeyError("increment_counter_metric", m)
              /\ UNCHANGED <<counters, nrecords>>
         ELSE IF metrics[m] # "counter"
                THEN /\ lastCall' = AttributeError("increment_counter_metric", metrics[m])
                     /\ UNCHANGED <<counters, nrecords>>
                ELSE /\ nrecords < MaxRecords
                     /\ counters' = CounterAdd(CounterAdd(counters, <<m, "none">>, v),
                                               <<m, "route=/api">>, v)
                     /\ nrecords' = nrecords + 1
                     /\ lastCall' = Ok("increment_counter_metric", m, v, a, metrics[m])
    /\ UNCHANGED <<platform, providerSet, exporter, meter, metrics, histograms, gauges>>

\* (mutant) increment_counter_metric does not pass its value on (adds 1)
increment_counter_metric_by_one(m, v, a) ==
    /\ IF m \notin DOMAIN metrics
         THEN /\ lastCall' = KeyError("increment_counter_metric", m)
              /\ UNCHANGED <<counters, nrecords>>
         ELSE IF metrics[m] # "counter"
                THEN /\ lastCall' = AttributeError("increment_counter_metric", metrics[m])
                     /\ UNCHANGED <<counters, nrecords>>
                ELSE /\ nrecords < MaxRecords
                     /\ counters' = CounterAdd(counters, <<m, a>>, 1)
                     /\ nrecords' = nrecords + 1
                     /\ lastCall' = Ok("increment_counter_metric", m, v, a, metrics[m])
    /\ UNCHANGED <<platform, providerSet, exporter, meter, metrics, histograms, gauges>>

increment_counter_metric(m, v, a) ==
    /\ IF m \notin DOMAIN metrics
         THEN /\ lastCall' = KeyError("increment_counter_metric", m)
              /\ UNCHANGED <<counters, nrecords>>
         ELSE IF metrics[m] # "counter"
                THEN /\ lastCall' = AttributeError("increment_counter_metric", metrics[m])
                     /\ UNCHANGED <<counters, nrecords>>
                ELSE /\ nrecords < MaxRecords
                     /\ counters' = CounterAdd(counters, <<m, a>>, v)
                     /\ nrecords' = nrecords + 1
                     /\ lastCall' = Ok("increment_counter_metric", m, v, a, metrics[m])
    /\ UNCHANGED <<platform, providerSet, exporter, meter, metrics, histograms, gauges>>

\* (mutant) record_histogram_metric records before it tests the registry
record_histogram_metric_record_first(m, v, a) ==
    /\ IF m \notin DOMAIN metrics
         THEN /\ lastCall' = KeyError("record_histogram_metric", m)
              /\ histograms' = HistogramRecord(histograms, <<m, a>>, v)
              /\ UNCHANGED nrecords
         ELSE IF metrics[m] # "histogram"
                THEN /\ lastCall' = AttributeError("record_histogram_metric", metrics[m])
                     /\ UNCHANGED <<histograms, nrecords>>
                ELSE /\ nrecords < MaxRecords
                     /\ histograms' = HistogramRecord(histograms, <<m, a>>, v)
                     /\ nrecords' = nrecords + 1
                     /\ lastCall' = Ok("record_histogram_metric", m, v, a, metrics[m])
    /\ UNCHANGED <<platform, providerSet, exporter, meter, metrics, counters, gauges>>

\* (mutant) record_histogram_metric drops the entry whose instrument cannot record
record_histogram_metric_evicting(m, v, a) ==
    /\ IF m \notin DOMAIN metrics
         THEN /\ lastCall' = KeyError("record_histogram_metric", m)
              /\ UNCHANGED <<metrics, histograms, nrecords>>
         ELSE IF metrics[m] # "histogram"
                THEN /\ lastCall' = AttributeError("record_histogram_metric", metrics[m])
                     /\ metrics' = [x \in DOMAIN metrics \ {m} |-> metrics[x]]
                     /\ UNCHANGED <<histograms, nrecords>>
                ELSE /\ nrecords < MaxRecords
                     /\ histograms' = HistogramRecord(histograms, <<m, a>>, v)
                     /\ nrecords' = nrecords + 1
                     /\ lastCall' = Ok("record_histogram_metric", m, v, a, metrics[m])
                     /\ UNCHANGED metrics
    /\ UNCHANGED <<platform, providerSet, exporter, meter, counters, gauges>>

record_histogram_metric(m, v, a) ==
    /\ IF m \notin DOMAIN metrics
         THEN /\ lastCall' = KeyError("record_histogram_metric", m)
              /\ UNCHANGED <<histograms, nrecords>>
         ELSE IF metrics[m] # "histogram"
                THEN /\ lastCall' = AttributeError("record_histogram_metric", metrics[m])
                     /\ UNCHANGED <<histograms, nrecords>>
                ELSE /\ nrecords < MaxRecords
                     /\ histograms' = HistogramRecord(histograms, <<m, a>>, v)
                     /\ nrecords' = nrecords + 1
                     /\ lastCall' = Ok("record_histogram_metric", m, v, a, metrics[m])
    /\ UNCHANGED <<platform, providerSet, exporter, meter, metrics, counters, gauges>>

\* (mutant) set_gauge_metric does not pass the attributes on
set_gauge_metric_no_attrs(m, v, a) ==
    /\ IF m \notin DOMAIN metrics
         THEN /\ lastCall' = KeyError("set_gauge_metric", m)
              /\ UNCHANGED <<gauges, nrecords>>
         ELSE IF metrics[m] # "gauge"
                THEN /\ lastCall' = AttributeError("set_gauge_metric", metrics[m])
                     /\ UNCHANGED <<gauges, nrecords>>
                ELSE /\ nrecords < MaxRecords
                     /\ gauges' = GaugeSet(gauges, <<m, "none">>, v)
                     /\ nrecords' = nrecords + 1
                     /\ lastCall' = Ok("set_gauge_metric", m, v, a, metrics[m])
    /\ UNCHANGED <<platform, providerSet, exporter, meter, metrics, counters, histograms>>

set_gauge_metric(m, v, a) ==
    /\ IF m \notin DOMAIN metrics
         THEN /\ lastCall' = KeyError("set_gauge_metric", m)
              /\ UNCHANGED <<gauges, nrecords>>
         ELSE IF metrics[m] # "gauge"
                THEN /\ lastCall' = AttributeError("set_gauge_metric", metrics[m])
                     /\ UNCHANGED <<gauges, nrecords>>
                ELSE /\ nrecords < MaxRecords
                     /\ gauges' = GaugeSet(gauges, <<m, a>>, v)
                     /\ nrecords' = nrecords + 1
                     /\ lastCall' = Ok("set_gauge_metric", m, v, a, metrics[m])
    /\ UNCHANGED <<platform, providerSet, exporter, meter, metrics, counters, histograms>>

-----------------------------------------------------------------------------
(* Exporter endpoint *)

\* the series of the instruments of one kind, by wire name and attribute set
Exposition(series) ==
    [ line \in { <<get_metric_name(k[1]), k[2]>> : k \in DOMAIN series } |->
        LET k == CHOOSE k \in DOMAIN series :
                    <<get_metric_name(k[1]), k[2]>> = line
        IN  series[k] ]

Scrape ==
    /\ exporter
    /\ lastCall' = [Call("scrape", NoMember, 0, "none", "ok") EXCEPT
                      !.output = [counter |-> Exposition(counters),
                                  histogram |-> Exposition(histograms),
                                  gauge |-> Exposition(gauges)]]
    /\ UNCHANGED <<platform, providerSet, exporter, meter, metrics,
                   counters, histograms, gauges, nrecords>>

-----------------------------------------------------------------------------

Next ==
    \/ \E cause \in BindOutcomes : setup_telemetry(cause) /\ UNCHANGED threads
    \/ \E failAt \in FailPoints : setup_metrics(failAt) /\ UNCHANGED threads
    \/ \E c \in RecordInputs :
          increment_counter_metric(c[1], c[2], c[3]) /\ UNCHANGED threads
    \/ \E c \in RecordInputs :
          record_histogram_metric(c[1], c[2], c[3]) /\ UNCHANGED threads
    \/ \E c \in RecordInputs :
          set_gauge_metric(c[1], c[2], c[3]) /\ UNCHANGED threads
    \/ Scrape /\ UNCHANGED threads

\* a TelemetryManager under any sequence of calls of its operations
Spec == Init /\ [][Next]_vars

-----------------------------------------------------------------------------
(* The module-level instance and its concurrent callers *)

\* (mutant) the import goes on to setup_metrics() when setup_telemetry() raised
ImportSetupTelemetrySwallowing ==
    /\ mainpc = "setup_telemetry"
    /\ \E cause \in BindOutcomes : setup_telemetry(cause)
    /\ mainpc' = "setup_metrics"
    /\ UNCHANGED <<pc, done>>

\* line 180: telemetry_manager.setup_telemetry(); an exception ends the import
ImportSetupTelemetry ==
    /\ mainpc = "setup_telemetry"
    /\ \E cause \in BindOutcomes : setup_telemetry(cause)
    /\ mainpc' = IF lastCall'.result = "ok" THEN "setup_metrics" ELSE "import_failed"
    /\ UNCHANGED <<pc, done>>

\* line 181: telemetry_manager.setup_metrics(); an exception ends the import
ImportSetupMetrics ==
    /\ mainpc = "setup_metrics"
    /\ \E failAt \in FailPoints : setup_metrics(failAt)
    /\ mainpc' = IF lastCall'.result = "ok" THEN "imported" ELSE "import_failed"
    /\ UNCHANGED <<pc, done>>

\* the counter and the attribute set the concurrent callers increment, by 1
SharedCounter == <<CounterMetricName[1], "none">>

\* a caller's increment_counter_metric, up to the membership test (lines 151-152)
IncrementCheck(t) ==
    /\ mainpc = "imported"
    /\ pc[t] = "idle"
    /\ done[t] < CallsPerCaller
    /\ IF SharedCounter[1] \notin DOMAIN metrics
         THEN /\ done' = [done EXCEPT ![t] = @ + 1]
              /\ pc' = pc
         ELSE /\ pc' = [pc EXCEPT ![t] = "add"]
              /\ done' = done
    /\ UNCHANGED <<manager, mainpc>>

\* (mutant) the manager keeps the total itself, read and written back without
\* a lock: an add made while another caller is in its own add is lost
IncrementAddRacy(t) ==
    /\ pc[t] = "add"
    /\ counters' = IF Cardinality({u \in Callers : pc[u] = "add"}) > 1
                     THEN counters
                     ELSE CounterAdd(counters, SharedCounter, 1)
    /\ pc' = [pc EXCEPT ![t] = "idle"]
    /\ done' = [done EXCEPT ![t] = @ + 1]
    /\ UNCHANGED <<platform, providerSet, exporter, meter, metrics,
                   histograms, gauges, nrecords, lastCall, mainpc>>

\* the caller's self.metrics[metric].add(value, attributes) (line 153); the
\* instrument applies one add at a time
IncrementAdd(t) ==
    /\ pc[t] = "add"
    /\ counters' = IF metrics[SharedCounter[1]] = "counter"
                     THEN CounterAdd(counters, SharedCounter, 1)
                     ELSE counters
    /\ pc' = [pc EXCEPT ![t] = "idle"]
    /\ done' = [done EXCEPT ![t] = @ + 1]
    /\ UNCHANGED <<platform, providerSet, exporter, meter, metrics,
                   histograms, gauges, nrecords, lastCall, mainpc>>

StartupNext ==
    \/ ImportSetupTelemetry
    \/ ImportSetupMetrics
    \/ \E t \in Callers : IncrementCheck(t)
    \/ \E t \in Callers : IncrementAdd(t)

\* the import of the module, then NumCallers threads calling
\* increment_counter_metric CallsPerCaller times each, with no lock
StartupSpec == Init /\ [][StartupNext]_vars

-----------------------------------------------------------------------------
(* Concurrent writers of one gauge *)

\* the gauge and the attribute set the concurrent callers set
SharedGauge == <<GaugeMetricName[1], "none">>

\* the value caller t passes in its n-th call (no two calls pass the same)
WrittenValue(t, n) == (t - 1) * CallsPerCaller + n

\* a caller's set_gauge_metric, up to the membership test (lines 173-174)
GaugeCheck(t) ==
    /\ mainpc = "imported"
    /\ pc[t] = "idle"
    /\ done[t] < CallsPerCaller
    /\ IF SharedGauge[1] \notin DOMAIN metrics
         THEN /\ done' = [done EXCEPT ![t] = @ + 1]
              /\ pc' = pc
         ELSE /\ pc' = [pc EXCEPT ![t] = "set"]
              /\ done' = done
    /\ UNCHANGED <<manager, mainpc>>

\* (mutant) the write combines the value with the one the series holds
GaugeWriteMixing(t) ==
    /\ pc[t] = "set"
    /\ gauges' = IF SharedGauge \in DOMAIN gauges
                   THEN GaugeSet(gauges, SharedGauge,
                                 gauges[SharedGauge] + WrittenValue(t, done[t] + 1))
                   ELSE GaugeSet(gauges, SharedGauge, WrittenValue(t, done[t] + 1))
    /\ pc' = [pc EXCEPT ![t] = "idle"]
    /\ done' = [done EXCEPT ![t] = @ + 1]
    /\ UNCHANGED <<platform, providerSet, exporter, meter, metrics,
                   counters, histograms, nrecords, lastCall, mainpc>>

\* the caller's self.metrics[metric].set(value, attributes) (line 175); the
\* instrument applies one set at a time
GaugeWrite(t) ==
    /\ pc[t] = "set"
    /\ gauges' = IF metrics[SharedGauge[1]] = "gauge"
                   THEN GaugeSet(gauges, SharedGauge, WrittenValue(t, done[t] + 1))
                   ELSE gauges
    /\ pc' = [pc EXCEPT ![t] = "idle"]
    /\ done' = [done EXCEPT ![t] = @ + 1]
    /\ UNCHANGED <<platform, providerSet, exporter, meter, metrics,
                   counters, histograms, nrecords, lastCall, mainpc>>

GaugeWritersNext ==
    \/ ImportSetupTelemetry
    \/ ImportSetupMetrics
    \/ \E t \in Callers : GaugeCheck(t)
    \/ \E t \in Callers : GaugeWrite(t)

\* the import of the module, then NumCallers threads calling set_gauge_metric
\* on one gauge CallsPerCaller times each, with no lock
GaugeWritersSpec == Init /\ [][GaugeWritersNext]_vars

-----------------------------------------------------------------------------
(* Properties *)

RecordOps == {"increment_counter_metric", "record_histogram_metric", "set_gauge_metric"}

\* the kind of instrument each record operation is for
KindOfOp(op) ==
    CASE op = "increment_counter_metric" -> "counter"
      [] op = "record_histogram_metric" -> "histogram"
      [] op = "set_gauge_metric" -> "gauge"

\* the kind of instrument that matches an identity's enumeration
MatchingKind(m) ==
    IF m \in Members(CounterMetricName) THEN "counter"
    ELSE IF m \in Members(HistogramMetricName) THEN "histogram"
    ELSE "gauge"

\* C1: when setup_metrics() has returned (after setup_telemetry()), the keys of
\* the registry are exactly the identities of the catalog, and each key maps to
\* an instrument of the kind matching its enumeration.
C1_RegistryIsCatalog ==
    (lastCall.op = "setup_metrics" /\ lastCall.result = "ok") =>
        /\ DOMAIN metrics = Catalog
        /\ \A m \in Catalog : metrics[m] = MatchingKind(m)

C1_Witness ==
    /\ lastCall.op = "setup_metrics"
    /\ lastCall.result = "ok"
    /\ meter
    /\ Cardinality(DOMAIN metrics) = Len(CreationOrder)

\* C2: setup_metrics() on a manager whose setup_telemetry() has not completed
\* (no meter handle) fails with the "not initialized" RuntimeError and leaves
\* the registry empty.
C2_SetupMetricsNeedsMeter ==
    (lastCall.op = "setup_metrics" /\ ~meter) =>
        /\ lastCall.result = "RuntimeError"
        /\ DOMAIN metrics = {}

C2_Witness ==
    /\ lastCall.op = "setup_metrics"
    /\ ~meter
    /\ lastCall.result = "RuntimeError"

\* C3: while the registry has not been populated, every record operation, for
\* every identity of the catalog, ends in the KeyError ("not initialized")
\* raised to its caller, whether or not setup_telemetry() has run.
C3_RecordBeforeSetupFails ==
    [][ (DOMAIN metrics = {} /\ lastCall'.op \in RecordOps) =>
            /\ lastCall'.result = "KeyError"
            /\ lastCall'.metric \in Catalog
            /\ DOMAIN metrics' = {} ]_vars

C3_Witness ==
    /\ lastCall.op = "set_gauge_metric"
    /\ lastCall.result = "KeyError"
    /\ lastCall.metric = GaugeMetricName[2]
    /\ DOMAIN metrics = {}
    /\ meter

\* C4 (the claim as stated): after setup_metrics(), a record operation called
\* with an identity whose instrument is of another kind ends in the KeyError
\* ("metric not initialized"), as for an identity absent from the registry.
C4_KindMismatchIsKeyError ==
    ( /\ lastCall.op \in RecordOps
      /\ DOMAIN metrics = Catalog
      /\ lastCall.instrument # KindOfOp(lastCall.op) ) =>
        lastCall.result = "KeyError"

\* C5 (the claim as stated): when the bind fails with the operating system's
\* address-already-in-use error, setup_telemetry() warns and returns without
\* raising, with the meter handle set (so that setup_metrics() can follow).
C5_AddressInUseIsNotFatal ==
    (lastCall.op = "setup_telemetry" /\ lastCall.cause = "address_in_use") =>
        /\ lastCall.result = "ok"
        /\ lastCall.warned
        /\ meter

\* C6: when the bind fails for another reason than address-already-in-use,
\* setup_telemetry() raises the OSError to its caller.
C6_OtherBindFailureRaises ==
    ( /\ lastCall.op = "setup_telemetry"
      /\ lastCall.cause \notin {"bound", "address_in_use"} ) =>
        /\ lastCall.result = "OSError"
        /\ ~lastCall.warned

C6_Witness ==
    /\ lastCall.op = "setup_telemetry"
    /\ lastCall.cause = "address_not_available"
    /\ lastCall.result = "OSError"
    /\ ~meter

AllDone == \A t \in Callers : pc[t] = "idle" /\ done[t] = CallsPerCaller

\* C7: when NumCallers concurrent callers have each made CallsPerCaller calls
\* increment_counter_metric(X, 1) with the same attributes and no lock, the
\* total of the counter is NumCallers * CallsPerCaller, in every interleaving.
C7_NoLostUpdates ==
    AllDone =>
        /\ SharedCounter \in DOMAIN counters
        /\ counters[SharedCounter] = NumCallers * CallsPerCaller

C7_Witness ==
    /\ AllDone
    /\ mainpc = "imported"
    /\ SharedCounter \in DOMAIN counters

\* C8 (the claim as stated): a setup_metrics() call in which a create call
\* fails never leaves a registry holding some identities of the catalog and
\* not others.
C8_SetupMetricsAllOrNothing ==
    (lastCall.op = "setup_metrics" /\ lastCall.result = "CreateError") =>
        (DOMAIN metrics = {} \/ DOMAIN metrics = Catalog)

\* C9: an exporter read that immediately follows a successful
\* set_gauge_metric(X, v, attrs) shows exactly v for X and that attribute set.
C9_GaugeReadAfterSet ==
    [][ ( /\ lastCall.op = "set_gauge_metric"
          /\ lastCall.result = "ok"
          /\ lastCall'.op = "scrape" ) =>
            LET line == <<get_metric_name(lastCall.metric), lastCall.attrs>>
            IN  /\ line \in DOMAIN lastCall'.output.gauge
                /\ lastCall'.output.gauge[line] = lastCall.value ]_vars

\* a read of a gauge series that was set twice
C9_Witness ==
    /\ lastCall.op = "scrape"
    /\ nrecords = 2
    /\ Cardinality(DOMAIN gauges) = 1
    /\ counters = <<>>
    /\ histograms = <<>>
    /\ DOMAIN lastCall.output.gauge # {}

\* C10: once the registry is populated, no call changes its set of keys.
C10_KeySetImmutable ==
    [][ DOMAIN metrics = Catalog => DOMAIN metrics' = DOMAIN metrics ]_vars

C10_Witness ==
    /\ DOMAIN metrics = Catalog
    /\ nrecords > 0
    /\ lastCall.op \in RecordOps
    /\ lastCall.result = "AttributeError"

\* the series of one kind after a call on series k: no other series changed
OnlySeries(old, new, k) ==
    /\ DOMAIN new = DOMAIN old \cup {k}
    /\ \A x \in DOMAIN old \ {k} : new[x] = old[x]

\* C11: a record call that succeeds changes the state of one instrument only,
\* the one registered under the identity passed in (of the kind of the
\* operation), and of it only the series of the attribute set passed in.
C11_OneInstrumentOneSeries ==
    [][ (lastCall'.op \in RecordOps /\ lastCall'.result = "ok") =>
          LET k == <<lastCall'.metric, lastCall'.attrs>>
          IN  /\ lastCall'.metric \in DOMAIN metrics
              /\ metrics[lastCall'.metric] = KindOfOp(lastCall'.op)
              /\ CASE lastCall'.op = "increment_counter_metric" ->
                        /\ OnlySeries(counters, counters', k)
                        /\ histograms' = histograms /\ gauges' = gauges
                   [] lastCall'.op = "record_histogram_metric" ->
                        /\ OnlySeries(histograms, histograms', k)
                        /\ counters' = counters /\ gauges' = gauges
                   [] lastCall'.op = "set_gauge_metric" ->
                        /\ OnlySeries(gauges, gauges', k)
                        /\ counters' = counters /\ histograms' = histograms ]_vars

\* a successful call on one attribute set while another series of the same
\* counter holds a value
C11_Witness ==
    /\ lastCall.op = "increment_counter_metric"
    /\ lastCall.result = "ok"
    /\ lastCall.attrs = "route=/api"
    /\ <<lastCall.metric, "none">> \in DOMAIN counters
    /\ <<lastCall.metric, "route=/api">> \in DOMAIN counters

\* C12 (the claim as stated): whenever setup_telemetry() has raised, the
\* manager's meter handle is unset (so that setup_metrics() cannot populate).
C12_RaiseLeavesMeterUnset ==
    (lastCall.op = "setup_telemetry" /\ lastCall.result = "OSError") => ~meter

\* C12 (amended): when setup_telemetry() raises on a manager on which no
\* earlier setup_telemetry() call returned (its meter handle is unset), the
\* meter handle is left unset and the registry empty; and a setup_metrics()
\* that follows then fails with the RuntimeError and the registry stays empty.
C12_FirstRaiseLeavesMeterUnset ==
    [][ /\ ( /\ ~meter
             /\ lastCall'.op = "setup_telemetry"
             /\ lastCall'.result = "OSError" ) =>
               (~meter' /\ DOMAIN metrics' = {})
        /\ ( /\ lastCall.op = "setup_telemetry"
             /\ lastCall.result = "OSError"
             /\ ~meter
             /\ lastCall'.op = "setup_metrics" ) =>
               (lastCall'.result = "RuntimeError" /\ DOMAIN metrics' = {}) ]_vars

\* setup_metrics() has failed on a manager whose setup_telemetry() was called and raised
C12_Witness ==
    /\ lastCall.op = "setup_metrics"
    /\ lastCall.result = "RuntimeError"
    /\ providerSet
    /\ ~meter
    /\ DOMAIN metrics = {}

C14_StartupOrder ==
    /\ mainpc = "setup_metrics" =>
          /\ lastCall.op = "setup_telemetry"
          /\ lastCall.result = "ok"
          /\ lastCall.cause \in BindOutcomes
          /\ providerSet
          /\ meter
          /\ DOMAIN metrics = {}
    /\ DOMAIN metrics # {} => meter
    /\ (\E t \in Callers : pc[t] # "idle" \/ done[t] > 0) =>
          /\ mainpc = "imported"
          /\ DOMAIN metrics = Catalog

C14_Witness ==
    /\ mainpc = "imported"
    /\ \E t \in Callers : done[t] > 0
    /\ SharedCounter \in DOMAIN counters

\* C15: a record operation that ends in the KeyError changes no instrument
\* value and does not change the registry.
C15_FailedRecordHasNoEffect ==
    [][ (lastCall'.op \in RecordOps /\ lastCall'.result = "KeyError") =>
          /\ metrics' = metrics
          /\ counters' = counters
          /\ histograms' = histograms
          /\ gauges' = gauges ]_vars

\* a KeyError on a manager whose instruments hold values
C15_Witness ==
    /\ lastCall.op \in RecordOps
    /\ lastCall.result = "KeyError"
    /\ counters # <<>>
    /\ DOMAIN metrics # {}

\* C16: the value a gauge series holds is the value of one completed
\* set_gauge_metric call; when all concurrent callers are done it is the value
\* of one caller's last call (the last write to take effect).
C16_LastWriteWins ==
    /\ SharedGauge \in DOMAIN gauges =>
          \E t \in Callers : \E n \in 1..done[t] :
              gauges[SharedGauge] = WrittenValue(t, n)
    /\ AllDone =>
          /\ SharedGauge \in DOMAIN gauges
          /\ \E t \in Callers : gauges[SharedGauge] = WrittenValue(t, CallsPerCaller)

\* all callers are done and the gauge holds the last value of another caller
\* than the last one
C16_Witness ==
    /\ AllDone
    /\ SharedGauge \in DOMAIN gauges
    /\ gauges[SharedGauge] = WrittenValue(1, CallsPerCaller)

WirePrefix == "memobase_server_"

\* C17: no two identities of the catalog have the same wire name, and every
\* wire name is the prefix memobase_server_ followed by the member's value.
C17_WireNamesUnique ==
    /\ \A m1 \in Catalog : \A m2 \in Catalog :
          m1 # m2 => get_metric_name(m1) # get_metric_name(m2)
    /\ \A m \in Catalog : get_metric_name(m) = WirePrefix \o m.value
    /\ Cardinality({ get_metric_name(m) : m \in DOMAIN metrics })
          = Cardinality(DOMAIN metrics)

\* the instruments of the whole catalog were created, each under its own name
C17_Witness ==
    /\ DOMAIN metrics = Catalog
    /\ Cardinality({ get_metric_name(m) : m \in DOMAIN metrics }) = Len(CreationOrder)

\* C18: setup_metrics() on a populated manager does not fail with the
\* RuntimeError, returns when no create call raises, and leaves the key set
\* the catalog, each identity with an instrument of the matching kind.
C18_SecondSetupKeepsRegistry ==
    [][ /\ (DOMAIN metrics = Catalog /\ lastCall'.op = "setup_metrics") =>
              /\ lastCall'.result # "RuntimeError"
              /\ DOMAIN metrics' = Catalog
              /\ \A m \in Catalog : metrics'[m] = MatchingKind(m)
        /\ (DOMAIN metrics = Catalog /\ setup_metrics(Len(CreationOrder) + 1)) =>
              lastCall'.result = "ok" ]_vars

\* setup_metrics() has returned on a manager whose gauge already held a value
C18_Witness ==
    /\ lastCall.op = "setup_metrics"
    /\ lastCall.result = "ok"
    /\ gauges # <<>>
    /\ DOMAIN metrics = Catalog

\* C19: no step lowers the total of a counter series; a successful
\* increment_counter_metric adds exactly its (non-negative) delta to its
\* series, and no other step changes a total: the total is the sum of the
\* deltas of the successful increments.
C19_CounterIsSumOfDeltas ==
    [][ /\ \A k \in DOMAIN counters :
              k \in DOMAIN counters' /\ counters'[k] >= counters[k]
        /\ IF lastCall'.op = "increment_counter_metric" /\ lastCall'.result = "ok"
             THEN LET k == <<lastCall'.metric, lastCall'.attrs>>
                  IN  /\ lastCall'.value >= 0
                      /\ OnlySeries(counters, counters', k)
                      /\ counters'[k] =
                            (IF k \in DOMAIN counters THEN counters[k] ELSE 0)
                               + lastCall'.value
             ELSE counters' = counters ]_vars

\* a series that two increments with different deltas have reached
C19_Witness ==
    /\ nrecords = 2
    /\ \E k \in DOMAIN counters : counters[k] = 3

====
